---- MODULE Spec2Model ----
(***************************************************************************)
(* Tooltip (src/src/tooltip/index.js): the show/hide scheduling of one     *)
(* Tooltip instance bound to one reference element.                        *)
(*                                                                         *)
(* The state is the instance's fields (_isOpen, _tooltipNode,              *)
(* popperInstance, _events), the part of the DOM the instance touches (the *)
(* floating nodes it created, the listeners on the reference, the title    *)
(* attribute), the timers armed with window.setTimeout, and the position   *)
(* of the pointer and of the keyboard focus, from which the browser        *)
(* derives the mouseenter/mouseleave/focus/blur events it dispatches.      *)
(***************************************************************************)
EXTENDS Integers, Sequences, FiniteSets, TLC

VARIABLES
    options,         \* this.options: [container, delay, title, trigger]
    legacy,          \* the browser sets MouseEvent.toElement
    titleAttr,       \* reference.getAttribute('title')
    isOpen,          \* this._isOpen
    tooltipNode,     \* this._tooltipNode: Undefined, Null or a node id
    popperInstance,  \* this.popperInstance: [id, destroyed], id 0 when unset
    events,          \* this._events
    refListeners,    \* listeners attached to the reference element
    nodes,           \* floating nodes created so far; a node id is its index
    timers,          \* pending window.setTimeout callbacks, in arming order
    pointer,         \* what the pointer is over: "reference", "tooltip" or "outside"
    focused,         \* the reference element has the focus
    last,            \* the last handler run: what ran and what it did
    clicks           \* the clicks so far, while nothing else has happened

vars == <<options, legacy, titleAttr, isOpen, tooltipNode, popperInstance,
          events, refListeners, nodes, timers, pointer, focused, last, clicks>>

\* the fields and the DOM a handler of the instance can change
prog == <<isOpen, tooltipNode, popperInstance, events, refListeners, nodes, timers>>

----------------------------------------------------------------------------
\* Bounds of the model

MaxNodes == 2       \* floating nodes created in one behaviour
MaxTimers == 2      \* timers pending at once
MaxListeners == 1   \* listeners on one floating node at once
MaxRun == 3         \* length up to which a run of the same public call is counted
MaxClicks == 4      \* length up to which a run of clicks is counted

----------------------------------------------------------------------------
\* Values

Undefined == 0      \* a field never assigned
Null == -1          \* this._tooltipNode = null

\* JavaScript truthiness of this._tooltipNode
IsNode(n) == n > 0

\* DOM elements an event can relate to
NoElement == [el |-> "undefined", node |-> 0]
Reference == [el |-> "reference", node |-> 0]
ReferenceChild == [el |-> "referenceChild", node |-> 0]
Outside == [el |-> "outside", node |-> 0]
TooltipEl(n) == [el |-> "tooltip", node |-> n]
TooltipInner(n) == [el |-> "tooltipInner", node |-> n]

\* b.contains(a) for the elements above; contains(undefined) is false
Contains(b, a) ==
    CASE a.el = "undefined" -> FALSE
      [] b.el = "reference" -> a.el \in {"reference", "referenceChild"}
      [] b.el = "tooltip" -> a.el \in {"tooltip", "tooltipInner"} /\ a.node = b.node
      [] OTHER -> a = b

isElOrChildOfEl(a, b) == a = b \/ Contains(b, a)

\* options.delay: a number, or an object {show, hide}
NumDelay(n) == [tag |-> "number", n |-> n, show |-> 0, hide |-> 0]
ObjDelay(s, h) == [tag |-> "object", n |-> 0, show |-> s, hide |-> h]

\* The configurations explored
Titles == {"", "Hi"}
DefaultTitles == {"", "Yo"}
Delays == {NumDelay(0), ObjDelay(2, 1)}
Containers == {"false", "selector"}
Triggers == {<<>>, <<"click">>, <<"focus">>, <<"hover">>}

AllOptions == [container : Containers, delay : Delays, title : DefaultTitles,
               trigger : Triggers]

Hovers(opts) == \E i \in 1..Len(opts.trigger) : opts.trigger[i] = "hover"

\* The instances triggered by clicks, by the focus or by calls alone, and the
\* instances triggered by the pointer (appended to the parent of the reference)
Configs == {o \in AllOptions : ~Hovers(o)}

HoverConfigs == {o \in AllOptions : Hovers(o) /\ o.container = "false"}

----------------------------------------------------------------------------
\* The instance as a record, so that one handler can call another

This ==
    [isOpen |-> isOpen, tooltipNode |-> tooltipNode, popperInstance |-> popperInstance,
     events |-> events, nodes |-> nodes, timers |-> timers,
     threw |-> FALSE, effects |-> <<>>]

NoPopper == [id |-> 0, destroyed |-> FALSE]

\* reference.getAttribute('title') || options.title
ResolveTitle(attr, opts) == IF attr # "" THEN attr ELSE opts.title

\* options.container === false ? reference.parentNode : options.container
ResolveContainer(opts) ==
    IF opts.container = "false" THEN "referenceParent" ELSE opts.container

\* _create and _append and new Popper: the node is built from the template with
\* the title in its inner node, appended to the container and handed to Popper.
\* A container given as a selector string has no appendChild: TypeError.
CreateAndAppend(s, title, container) ==
    IF container = "selector"
    THEN [s EXCEPT !.threw = TRUE]
    ELSE LET id == Len(s.nodes) + 1 IN
         [s EXCEPT !.nodes = Append(@, [parent |-> container, display |-> "",
                                        text |-> title, listeners |-> <<>>]),
                   !.popperInstance = [id |-> id, destroyed |-> FALSE],
                   !.tooltipNode = id,
                   !.effects = Append(@, "new Popper")]

ShowExisting(s) ==
    [s EXCEPT !.nodes[s.tooltipNode].display = "",
              !.effects = Append(@, "update")]

\* _show without its first line: it runs again on an open tooltip
show_noGuard(s, attr, opts) ==
    LET s1 == [s EXCEPT !.isOpen = TRUE] IN
    IF IsNode(s1.tooltipNode) THEN ShowExisting(s1)
    ELSE IF ResolveTitle(attr, opts) = "" THEN s1
    ELSE CreateAndAppend(s1, ResolveTitle(attr, opts), ResolveContainer(opts))

\* _show without the reuse of the node it has: every show builds a new one
show_recreates(s, attr, opts) ==
    IF s.isOpen THEN s
    ELSE LET s1 == [s EXCEPT !.isOpen = TRUE] IN
         IF ResolveTitle(attr, opts) = "" THEN s1
         ELSE CreateAndAppend(s1, ResolveTitle(attr, opts), ResolveContainer(opts))

\* _show(reference, options)
show(s, attr, opts) ==
    IF s.isOpen THEN s
    ELSE LET s1 == [s EXCEPT !.isOpen = TRUE] IN
         IF IsNode(s1.tooltipNode) THEN ShowExisting(s1)
         ELSE IF ResolveTitle(attr, opts) = "" THEN s1
         ELSE CreateAndAppend(s1, ResolveTitle(attr, opts), ResolveContainer(opts))

\* this._tooltipNode.style.display = 'none'
SetDisplayNone(s) ==
    IF IsNode(s.tooltipNode)
    THEN [s EXCEPT !.nodes[s.tooltipNode].display = "none"]
    ELSE [s EXCEPT !.threw = TRUE]

\* _hide without its first line: it runs again on a closed tooltip
hide_noGuard(s) == SetDisplayNone([s EXCEPT !.isOpen = FALSE])

\* _hide that also lets go of the floating element
hide_forgets(s) ==
    IF ~s.isOpen THEN s
    ELSE [SetDisplayNone([s EXCEPT !.isOpen = FALSE]) EXCEPT !.tooltipNode = Undefined]

\* _hide()
hide(s) ==
    IF ~s.isOpen THEN s
    ELSE SetDisplayNone([s EXCEPT !.isOpen = FALSE])

\* node.removeEventListener(event, func): the first listener equal to it goes
RECURSIVE RemoveListener(_, _)
RemoveListener(ls, l) ==
    IF ls = <<>> THEN <<>>
    ELSE IF Head(ls) = l THEN Tail(ls)
    ELSE <<Head(ls)>> \o RemoveListener(Tail(ls), l)

\* this._events.forEach(({func, event}) => this._tooltipNode.removeEventListener(event, func))
RECURSIVE RemoveAll(_, _)
RemoveAll(ls, evs) ==
    IF evs = <<>> THEN ls
    ELSE RemoveAll(RemoveListener(ls, Head(evs)), Tail(evs))

\* the body of _dispose under if (this._tooltipNode)
DisposeNode(s) ==
    LET s1 == hide(s)
        n == s1.tooltipNode
    IN  [s1 EXCEPT !.popperInstance.destroyed = TRUE,
                   !.effects = Append(@, "destroy"),
                   !.nodes[n].listeners = RemoveAll(@, s1.events),
                   !.events = <<>>,
                   !.nodes[n].parent = "none",
                   !.tooltipNode = Null]

\* _dispose that leaves this._tooltipNode set
dispose_keepsNode(s) ==
    IF IsNode(s.tooltipNode)
    THEN [DisposeNode(s) EXCEPT !.tooltipNode = s.tooltipNode]
    ELSE s

\* _dispose()
dispose(s) == IF IsNode(s.tooltipNode) THEN DisposeNode(s) ELSE s

\* toggle()
toggle(s, attr, opts) == IF s.isOpen THEN hide(s) ELSE show(s, attr, opts)

----------------------------------------------------------------------------
\* Scheduling

\* the show delay read from the hide field
computedShowDelay_hide(delay) ==
    IF delay.tag = "number" THEN delay.n ELSE delay.hide

\* (delay && delay.show) || delay || 0, as window.setTimeout reads it: a delay
\* object whose field is 0 falls through to the object itself, which is NaN as a
\* number and so 0.
computedShowDelay(delay) ==
    IF delay.tag = "number" THEN delay.n ELSE delay.show

\* (delay && delay.hide) || delay || 0
computedHideDelay(delay) ==
    IF delay.tag = "number" THEN delay.n ELSE delay.hide

Timer(kind, evt, wait) == [kind |-> kind, evt |-> evt, wait |-> wait, age |-> 0]

Event(type, related) ==
    [type |-> type, relatedTarget |-> related,
     toElement |-> IF legacy /\ type = "mouseleave" THEN related ELSE NoElement]

NoEvent == [type |-> "none", relatedTarget |-> NoElement, toElement |-> NoElement]
NoTimer == [kind |-> "none", evt |-> NoEvent, wait |-> 0, age |-> 0]

\* _scheduleShow that calls _show at once when the delay is 0
scheduleShow_sync(s, opts) ==
    IF computedShowDelay(opts.delay) = 0
    THEN show(s, titleAttr, opts)
    ELSE [s EXCEPT !.timers = Append(@, Timer("show", NoEvent, computedShowDelay(opts.delay)))]

\* _scheduleShow(reference, delay, options): the event is not kept
scheduleShow(s, opts) ==
    [s EXCEPT !.timers = Append(@, Timer("show", NoEvent, computedShowDelay(opts.delay)))]

\* _scheduleHide(reference, delay, options, evt): the arming of the timer
scheduleHide(s, opts, evt) ==
    [s EXCEPT !.timers = Append(@, Timer("hide", evt, computedHideDelay(opts.delay)))]

\* evt.relatedreference || evt.toElement: no DOM event carries a property named
\* relatedreference, so the read is undefined and toElement decides
relatedreference(evt) == evt.toElement

\* document.body.contains(this._tooltipNode)
BodyContains(s) == IsNode(s.tooltipNode) /\ s.nodes[s.tooltipNode].parent # "none"

CallbackListener == [event |-> "mouseleave", func |-> "callback"]

\* _setTooltipNodeEvent(evt, reference, delay, options): TRUE when the listener is set
isSet(s, evt) == isElOrChildOfEl(relatedreference(evt), TooltipEl(s.tooltipNode))

setTooltipNodeEvent(s) ==
    [s EXCEPT !.nodes[s.tooltipNode].listeners = Append(@, CallbackListener)]

\* the function of the hide timer without its two checks before _hide
hideTimeout_noChecks(s, evt) ==
    IF evt.type = "mouseleave" /\ isSet(s, evt) THEN setTooltipNodeEvent(s)
    ELSE hide(s)

\* the function _scheduleHide hands to window.setTimeout
hideTimeout(s, evt) ==
    IF ~s.isOpen THEN s
    ELSE IF ~BodyContains(s) THEN s
    ELSE IF evt.type = "mouseleave" /\ isSet(s, evt) THEN setTooltipNodeEvent(s)
    ELSE hide(s)

\* callback(evt2) without its removeEventListener: the listener stays on the node
callback_staysOn(s, opts, evt2) ==
    IF ~IsNode(s.tooltipNode) THEN [s EXCEPT !.threw = TRUE]
    ELSE IF ~isElOrChildOfEl(relatedreference(evt2), Reference)
         THEN scheduleHide(s, opts, evt2)
         ELSE s

\* callback(evt2), the one-shot listener _setTooltipNodeEvent puts on the node
callback(s, opts, evt2) ==
    IF ~IsNode(s.tooltipNode) THEN [s EXCEPT !.threw = TRUE]
    ELSE LET s1 == [s EXCEPT !.nodes[s.tooltipNode].listeners =
                                 RemoveListener(@, CallbackListener),
                             !.effects = Append(@, "removeEventListener")]
         IN  IF ~isElOrChildOfEl(relatedreference(evt2), Reference)
             THEN scheduleHide(s1, opts, evt2)
             ELSE s1

----------------------------------------------------------------------------
\* Listeners on the reference element

directEvent(trigger) ==
    CASE trigger = "hover" -> "mouseenter"
      [] trigger = "focus" -> "focus"
      [] trigger = "click" -> "click"

oppositeEvent(trigger) ==
    CASE trigger = "hover" -> "mouseleave"
      [] trigger = "focus" -> "blur"
      [] trigger = "click" -> "click"

\* _setEventListeners: the direct listeners first, then the opposite ones
setEventListeners(trigger) ==
    [i \in 1..Len(trigger) |-> [event |-> directEvent(trigger[i]), func |-> "direct"]]
    \o [i \in 1..Len(trigger) |-> [event |-> oppositeEvent(trigger[i]), func |-> "opposite"]]

\* some listener of the list is for the event
Listens(ls, type) == \E i \in 1..Len(ls) : ls[i].event = type

\* the opposite listener without its look at evt.usedByTooltip
runListener_noFlag(s, opts, l, evt, used) ==
    IF l.event # evt.type THEN <<s, used>>
    ELSE IF l.func = "direct"
         THEN IF s.isOpen THEN <<s, used>> ELSE <<scheduleShow(s, opts), TRUE>>
         ELSE <<scheduleHide(s, opts, evt), used>>

\* the direct listener without its look at this._isOpen
runListener_noOpenCheck(s, opts, l, evt, used) ==
    IF l.event # evt.type THEN <<s, used>>
    ELSE IF l.func = "direct"
         THEN <<scheduleShow(s, opts), TRUE>>
         ELSE IF used THEN <<s, used>> ELSE <<scheduleHide(s, opts, evt), used>>

\* one listener of the reference run on evt; used is evt.usedByTooltip.
\* The result is <<instance, usedByTooltip>>.
runListener(s, opts, l, evt, used) ==
    IF l.event # evt.type THEN <<s, used>>
    ELSE IF l.func = "direct"
         THEN IF s.isOpen THEN <<s, used>> ELSE <<scheduleShow(s, opts), TRUE>>
         ELSE IF used THEN <<s, used>> ELSE <<scheduleHide(s, opts, evt), used>>

\* reference.dispatchEvent(evt): the listeners run in the order they were added
RECURSIVE dispatchOnReference(_, _, _, _, _)
dispatchOnReference(s, opts, ls, evt, used) ==
    IF ls = <<>> THEN s
    ELSE LET r == runListener(s, opts, Head(ls), evt, used)
         IN  dispatchOnReference(r[1], opts, Tail(ls), evt, r[2])

\* node.dispatchEvent(evt) on a floating node: every listener it had when the
\* event was dispatched runs once
RECURSIVE dispatchOnNode(_, _, _, _)
dispatchOnNode(s, opts, ls, evt) ==
    IF ls = <<>> THEN s
    ELSE dispatchOnNode(IF Head(ls).event = evt.type THEN callback(s, opts, evt) ELSE s,
                        opts, Tail(ls), evt)

----------------------------------------------------------------------------
\* The state after the constructor

InitOf(configs) ==
    /\ options \in configs
    /\ legacy \in IF Listens(setEventListeners(options.trigger), "mouseleave")
                    THEN BOOLEAN ELSE {FALSE}
    /\ titleAttr \in Titles
    /\ isOpen = FALSE
    /\ tooltipNode = Undefined
    /\ popperInstance = NoPopper
    /\ events = setEventListeners(options.trigger)
    /\ refListeners = setEventListeners(options.trigger)
    /\ nodes = <<>>
    /\ timers = <<>>
    /\ pointer = "outside"
    /\ focused = FALSE
    /\ last = [op |-> "new", n |-> 0, wasOpen |-> FALSE, threw |-> FALSE,
               effects |-> <<>>, timer |-> NoTimer]
    /\ clicks = 0

Init == InitOf(Configs)

InitHover == InitOf(HoverConfigs)

----------------------------------------------------------------------------
\* Steps

Displayed(ns, n) == ns[n].parent # "none" /\ ns[n].display = ""

\* a floating node that is hidden or removed is no longer under the pointer
PointerOver(p, s) ==
    IF p = "tooltip" /\ ~(IsNode(s.tooltipNode) /\ Displayed(s.nodes, s.tooltipNode))
    THEN "outside" ELSE p

\* the fields of the instance after a handler has run, within the bounds of the model
Fields(s) ==
    /\ Len(s.nodes) <= MaxNodes
    /\ \A n \in 1..Len(s.nodes) : Len(s.nodes[n].listeners) <= MaxListeners
    /\ Len(s.timers) <= MaxTimers
    /\ isOpen' = s.isOpen
    /\ tooltipNode' = s.tooltipNode
    /\ popperInstance' = s.popperInstance
    /\ events' = s.events
    /\ nodes' = s.nodes
    /\ timers' = s.timers

\* the instance after a public call or a timer has run
Commit(s) ==
    /\ Fields(s)
    /\ pointer' = PointerOver(pointer, s)
    /\ UNCHANGED <<options, legacy, titleAttr, refListeners, focused>>

\* the value of clicks once something other than a click and its timer has run
Other == MaxClicks + 1

\* how many times in a row the public method has now been called
Run(op) ==
    IF op \notin {"show", "hide", "toggle", "dispose"} THEN 0
    ELSE IF last.op # op THEN 1
    ELSE IF last.n < MaxRun THEN last.n + 1 ELSE MaxRun

Record(op, s, t) ==
    last' = [op |-> op, n |-> Run(op), wasOpen |-> isOpen, threw |-> s.threw,
             effects |-> s.effects, timer |-> t]

\* tooltip.show()
Show ==
    LET s == show(This, titleAttr, options)
    IN  Commit(s) /\ Record("show", s, NoTimer) /\ clicks' = Other

\* tooltip.hide()
Hide ==
    LET s == hide(This)
    IN  Commit(s) /\ Record("hide", s, NoTimer) /\ clicks' = Other

\* tooltip.toggle()
Toggle ==
    LET s == toggle(This, titleAttr, options)
    IN  Commit(s) /\ Record("toggle", s, NoTimer) /\ clicks' = Other

\* tooltip.dispose()
Dispose ==
    LET s == dispose(This)
    IN  Commit(s) /\ Record("dispose", s, NoTimer) /\ clicks' = Other

Due(t) == t.age >= t.wait

\* the timers fire in the order of their deadlines, the first armed first
FirstDue == CHOOSE i \in 1..Len(timers) : Due(timers[i]) /\ \A j \in 1..(i-1) : ~Due(timers[j])

Without(seq, i) == SubSeq(seq, 1, i-1) \o SubSeq(seq, i+1, Len(seq))

\* a timer armed by window.setTimeout fires
Timeout ==
    /\ \E i \in 1..Len(timers) : Due(timers[i])
    /\ LET t == timers[FirstDue]
           s0 == [This EXCEPT !.timers = Without(timers, FirstDue)]
           s == IF t.kind = "show" THEN show(s0, titleAttr, options)
                ELSE hideTimeout(s0, t.evt)
       IN  Commit(s) /\ Record("timeout", s, t) /\ UNCHANGED clicks

\* one unit of time passes; a timer that is due fires before more time passes
Tick ==
    /\ timers # <<>>
    /\ \A i \in 1..Len(timers) : ~Due(timers[i])
    /\ timers' = [i \in 1..Len(timers) |-> [timers[i] EXCEPT !.age = @ + 1]]
    /\ UNCHANGED <<options, legacy, titleAttr, isOpen, tooltipNode, popperInstance,
                   events, refListeners, nodes, pointer, focused, last, clicks>>

\* the element is part of the reference, of the floating node, or of neither
Area(e) ==
    CASE e.el \in {"reference", "referenceChild"} -> "reference"
      [] e.el \in {"tooltip", "tooltipInner"} -> "tooltip"
      [] OTHER -> "outside"

\* the elements the pointer can move onto
Places ==
    {Reference, ReferenceChild, Outside}
    \cup IF IsNode(tooltipNode) /\ Displayed(nodes, tooltipNode)
         THEN {TooltipEl(tooltipNode), TooltipInner(tooltipNode)} ELSE {}

\* the events the browser dispatches when the pointer goes from one area onto an
\* element of another: mouseleave on what it left, then mouseenter on what it entered
MoveEvents(s, opts, ls, from, to) ==
    LET s1 == IF from = "tooltip"
              THEN dispatchOnNode(s, opts, s.nodes[s.tooltipNode].listeners,
                                  Event("mouseleave", to))
              ELSE IF from = "reference"
              THEN dispatchOnReference(s, opts, ls, Event("mouseleave", to), FALSE)
              ELSE s
    IN  IF Area(to) = "reference"
        THEN dispatchOnReference(s1, opts, ls, Event("mouseenter", NoElement), FALSE)
        ELSE s1

\* the pointer moves from one area to another; nobody listens without 'hover'
MovePointer ==
    /\ Listens(refListeners, "mouseenter")
    /\ \E to \in {e \in Places : Area(e) # pointer} :
        LET s == MoveEvents(This, options, refListeners, pointer, to)
        IN  /\ Fields(s)
            /\ pointer' = Area(to)
            /\ Record("pointer", s, NoTimer)
            /\ clicks' = Other
            /\ UNCHANGED <<options, legacy, titleAttr, refListeners, focused>>

\* the reference element gets or loses the focus
Focus ==
    LET type == IF focused THEN "blur" ELSE "focus"
        s == dispatchOnReference(This, options, refListeners, Event(type, NoElement), FALSE)
    IN  /\ Listens(refListeners, "focus")
        /\ focused' = ~focused
        /\ Fields(s)
        /\ Record(type, s, NoTimer)
        /\ clicks' = Other
        /\ UNCHANGED <<options, legacy, titleAttr, refListeners, pointer>>

\* a click on the reference element
Click ==
    LET s == dispatchOnReference(This, options, refListeners, Event("click", NoElement), FALSE)
    IN  /\ Listens(refListeners, "click")
        /\ Fields(s)
        /\ Record("click", s, NoTimer)
        /\ clicks' = IF clicks < MaxClicks /\ timers = <<>> THEN clicks + 1 ELSE Other
        /\ UNCHANGED <<options, legacy, titleAttr, refListeners, pointer, focused>>

\* the page changes the title attribute of the reference element. _show reads it
\* only while the instance has no floating node, so a change made while it has
\* one is seen as a change made once the node is disposed of.
SetTitle ==
    /\ ~IsNode(tooltipNode)
    /\ titleAttr' \in Titles \ {titleAttr}
    /\ last' = [last EXCEPT !.n = 0]
    /\ clicks' = Other
    /\ UNCHANGED <<options, legacy, isOpen, tooltipNode, popperInstance, events,
                   refListeners, nodes, timers, pointer, focused>>

\* an instance triggered by clicks, by the focus or by calls alone
Next ==
    \/ Show
    \/ Hide
    \/ Toggle
    \/ Dispose
    \/ Timeout
    \/ Tick
    \/ Focus
    \/ Click
    \/ SetTitle

Spec == Init /\ [][Next]_vars

\* an instance triggered by the pointer, until it is disposed of
NextHover ==
    \/ Show
    \/ Hide
    \/ Timeout
    \/ Tick
    \/ MovePointer

SpecHover == InitHover /\ [][NextHover]_vars

\* an instance triggered by the pointer on which no public method is called
NextPointer ==
    \/ Timeout
    \/ Tick
    \/ MovePointer

SpecPointer == InitHover /\ [][NextPointer]_vars

----------------------------------------------------------------------------
\* Properties

PublicCalls == {"show", "hide", "toggle", "dispose"}

Has(seq, x) == \E i \in 1..Len(seq) : seq[i] = x

\* the floating node exists and its display is not suppressed
Visible == IsNode(tooltipNode) /\ Displayed(nodes, tooltipNode)

\* C1: whenever the tooltip is open, the floating element exists and is displayed.
C1_OpenImpliesDisplayed == isOpen => Visible

\* C2: show() with neither a title attribute nor a default title creates no
\* floating element and leaves the tooltip closed.
C2_NoTitleStaysClosed ==
    [][(Show /\ ~isOpen /\ ResolveTitle(titleAttr, options) = "")
         => (~isOpen' /\ nodes' = nodes)]_vars

\* C3: on an instance with the default container, whatever its title, no call of
\* show, hide, toggle or dispose raises an error.
C3_PublicCallsNeverThrow ==
    (options.container = "false" /\ last.op \in PublicCalls) => ~last.threw

\* C4: the hide timer of a mouseleave whose related target is the floating
\* element, or a descendant of it, leaves an open tooltip open.
C4_PointerTransferKeepsOpen ==
    (/\ last.op = "timeout"
     /\ last.timer.kind = "hide"
     /\ last.timer.evt.type = "mouseleave"
     /\ IsNode(tooltipNode)
     /\ isElOrChildOfEl(last.timer.evt.relatedTarget, TooltipEl(tooltipNode))
     /\ last.wasOpen)
    => isOpen

\* C5: with delay {show: s, hide: h}, s and h positive, the timer armed by a
\* mouseenter shows the tooltip no sooner than s units of time after the event,
\* and the timer armed by a mouseleave hides it no sooner than h units after it.
C5_DelaySemantics ==
    (/\ options.delay.tag = "object"
     /\ options.delay.show > 0
     /\ options.delay.hide > 0
     /\ last.op = "timeout")
    => /\ last.timer.kind = "show" => last.timer.age >= options.delay.show
       /\ last.timer.kind = "hide" => last.timer.age >= options.delay.hide

\* a mouseleave has hidden, h units after it, the tooltip that a mouseenter had shown
C5_Witness ==
    /\ options.delay.tag = "object"
    /\ options.delay.show > 0
    /\ options.delay.hide > 0
    /\ last.op = "timeout"
    /\ last.timer.kind = "hide"
    /\ last.timer.evt.type = "mouseleave"
    /\ last.timer.age = options.delay.hide
    /\ last.wasOpen
    /\ ~isOpen
    /\ IsNode(tooltipNode)

C7_ClickAlternates ==
    (/\ options.trigger = <<"click">>
     /\ options.delay = NumDelay(0)
     /\ options.container = "false"
     /\ ResolveTitle(titleAttr, options) # ""
     /\ clicks \in 1..MaxClicks
     /\ timers = <<>>)
    => /\ IsNode(tooltipNode)
       /\ nodes[tooltipNode].parent = "referenceParent"
       /\ nodes[tooltipNode].text = ResolveTitle(titleAttr, options)
       /\ Len(nodes) = 1
       /\ IF clicks % 2 = 1
          THEN isOpen /\ nodes[tooltipNode].display = ""
          ELSE ~isOpen /\ nodes[tooltipNode].display = "none"

\* the second click has hidden the floating element and left it attached
C7_Witness ==
    /\ options.trigger = <<"click">>
    /\ options.delay = NumDelay(0)
    /\ clicks = 2
    /\ timers = <<>>
    /\ ~isOpen
    /\ IsNode(tooltipNode)
    /\ nodes[tooltipNode].display = "none"
    /\ nodes[tooltipNode].parent = "referenceParent"

\* C8: show() on an open tooltip changes nothing: no field, no node, no timer,
\* and the positioning handle is not called.
C8_ShowWhenOpenIsNoOp ==
    [][(Show /\ isOpen) => (UNCHANGED prog /\ last'.effects = <<>> /\ ~last'.threw)]_vars

\* show() was called on a tooltip that was open with its floating element
C8_Witness ==
    /\ last.op = "show"
    /\ last.wasOpen
    /\ isOpen
    /\ Visible

\* C9: hide() on a closed tooltip changes nothing: no field, no node, no
\* listener, no timer, and the positioning handle is not called.
C9_HideWhenClosedIsNoOp ==
    [][(Hide /\ ~isOpen) => (UNCHANGED prog /\ last'.effects = <<>> /\ ~last'.threw)]_vars

\* hide() was called on a closed tooltip whose floating element has a listener
C9_Witness ==
    /\ last.op = "hide"
    /\ ~last.wasOpen
    /\ ~isOpen
    /\ IsNode(tooltipNode)
    /\ nodes[tooltipNode].listeners # <<>>

\* C10: a dispose() that follows a dispose() changes nothing and raises no error.
C10_SecondDisposeIsNoOp ==
    [][(Dispose /\ last.op = "dispose")
         => (UNCHANGED prog /\ last'.effects = <<>> /\ ~last'.threw)]_vars

\* dispose() was called twice in a row on an instance that had a floating element
C10_Witness ==
    /\ last.op = "dispose"
    /\ last.n = 2
    /\ tooltipNode = Null
    /\ popperInstance.destroyed

\* C11: in every reachable state, also after dispose(), the instance has a
\* floating element exactly when it has a positioning handle.
C11_NodeIffHandle == IsNode(tooltipNode) <=> popperInstance.id # 0

\* C12: once dispose() has run and left the instance closed without a floating
\* element, no timer that fires and no trigger event on the reference opens it
\* or gives it a floating element again.
C12_DisposeIsTerminal ==
    [][(tooltipNode = Null /\ ~isOpen /\ (Timeout \/ Click \/ Focus))
         => (~isOpen' /\ tooltipNode' = Null)]_vars

\* C13: while the instance has a floating element, every step other than
\* dispose() keeps that element and its positioning handle: nothing is created,
\* removed or destroyed, and a step that opens the tooltip shows the same element
\* again and asks the same handle to update.
C13_CreatedAtMostOnce ==
    [][(IsNode(tooltipNode) /\ ~Dispose)
         => /\ tooltipNode' = tooltipNode
            /\ popperInstance' = popperInstance
            /\ ~popperInstance.destroyed
            /\ Len(nodes') = Len(nodes)
            /\ nodes'[tooltipNode].parent = nodes[tooltipNode].parent
            /\ (isOpen /\ ~isOpen') => nodes'[tooltipNode].display = "none"
            /\ (~isOpen /\ isOpen') => (Visible' /\ last'.effects = <<"update">>)]_vars

\* a show timer armed by a trigger event has opened the tooltip again on the one
\* floating element, with a call of update
C13_Witness ==
    /\ last.op = "timeout"
    /\ last.timer.kind = "show"
    /\ last.effects = <<"update">>
    /\ Len(nodes) = 1
    /\ tooltipNode = 1
    /\ popperInstance = [id |-> 1, destroyed |-> FALSE]
    /\ Visible

\* C14: with trigger 'click', one click on the reference arms exactly one timer:
\* a show timer if the tooltip was closed, a hide timer if it was open.
C14_ClickArmsOneTimer ==
    [][Click => /\ Len(timers') = Len(timers) + 1
                /\ SubSeq(timers', 1, Len(timers)) = timers
                /\ timers'[Len(timers')].kind = IF isOpen THEN "hide" ELSE "show"]_vars

\* a click on an open tooltip has armed a hide timer and nothing else
C14_Witness ==
    /\ last.op = "click"
    /\ last.wasOpen
    /\ Len(timers) = 1
    /\ timers[1].kind = "hide"

\* C15: a hide timer that fires while the tooltip is closed, or while the
\* floating element is not in the document, only goes away: isOpen, the floating
\* elements with their display and listeners, and the handle stay as they were,
\* and no error is raised.
C15_StaleHideTimerAborts ==
    [][(Timeout /\ timers[FirstDue].kind = "hide" /\ (~isOpen \/ ~BodyContains(This)))
         => /\ UNCHANGED <<isOpen, tooltipNode, popperInstance, events, nodes>>
            /\ timers' = Without(timers, FirstDue)
            /\ last'.effects = <<>>
            /\ ~last'.threw]_vars

\* a hide timer has fired on an instance marked open whose floating element
\* dispose() had removed
C15_Witness ==
    /\ last.op = "timeout"
    /\ last.timer.kind = "hide"
    /\ last.wasOpen
    /\ tooltipNode = Null
    /\ \E n \in 1..Len(nodes) : nodes[n].parent = "none"

C17_OneShotListener ==
    [][(MovePointer /\ pointer = "tooltip" /\ nodes[tooltipNode].listeners # <<>>)
         => /\ nodes'[tooltipNode].listeners = <<>>
            /\ Len(last'.effects) = Len(nodes[tooltipNode].listeners)
            /\ ~last'.threw
            /\ pointer' = "reference" => (timers' = timers /\ isOpen' /\ Visible')]_vars

\* the pointer went from the floating element back onto the reference, the
\* listener ran and is gone, and the tooltip is open with no timer pending
C17_Witness ==
    /\ last.op = "pointer"
    /\ last.effects = <<"removeEventListener">>
    /\ pointer = "reference"
    /\ nodes[tooltipNode].listeners = <<>>
    /\ timers = <<>>
    /\ isOpen
    /\ Visible

\* C18: with trigger 'hover' and a title that is not empty, when the pointer is
\* outside the reference and the floating element and every timer has fired, the
\* tooltip is closed.
C18_ClosedOncePointerIsAway ==
    (pointer = "outside" /\ timers = <<>> /\ ResolveTitle(titleAttr, options) # "")
        => ~isOpen

\* C19: with trigger 'hover', a hide timer that fires while the pointer is over
\* the reference leaves an open tooltip open.
C19_NoTimerHideOverReference ==
    (last.op = "timeout" /\ last.timer.kind = "hide" /\ last.wasOpen
        /\ pointer = "reference")
        => isOpen

\* C20: when the last call was a show() that found no title and created
\* nothing, and the reference has been given a title since, the next show()
\* creates the floating element and displays it.
C20_ShowAfterTitleIsSet ==
    [][(Show /\ last.op = "show" /\ ~last.wasOpen /\ ~IsNode(tooltipNode)
             /\ options.container = "false"
             /\ ResolveTitle(titleAttr, options) # "")
         => (isOpen' /\ Visible')]_vars

====
